---- MODULE Spec2Model ----
(***************************************************************************)
(* The day-cycle engine of oregon_trail/game.py: class Game, its GameState *)
(* and the configuration tables.  One call of Game.perform_action is one   *)
(* step; every value the engine takes from its random source is an input   *)
(* of the step.  Multipliers are kept in hundredths (1.05 is 105).         *)
(***************************************************************************)
EXTENDS Integers, Sequences, FiniteSets, TLC

VARIABLES state, is_over, current_trade_offers, ret

vars == <<state, is_over, current_trade_offers, ret>>

(***************************************************************************)
(* Bound of the exploration.                                               *)
(***************************************************************************)
\* a trading post is stocked with at most MaxOffers offers (the code: 1 to 3)
MaxOffers == 1

(***************************************************************************)
(* Configuration tables.                                                   *)
(***************************************************************************)
BASE_FOOD_PER_DAY == 5

TARGET_MILES == 2000

PACE_SPEEDS == [slow |-> 12, steady |-> 18, grueling |-> 24]

PACE_FOOD_MULTIPLIER == [slow |-> 80, steady |-> 100, grueling |-> 135]

DIFFICULTY_SETTINGS ==
  [easy   |-> [food |-> 300, ammo |-> 70, money |-> 1400, rest_health |-> 15,
               starvation_penalty |-> 8, max_days |-> 60],
   normal |-> [food |-> 240, ammo |-> 55, money |-> 1100, rest_health |-> 12,
               starvation_penalty |-> 10, max_days |-> 55],
   hard   |-> [food |-> 200, ammo |-> 45, money |-> 900, rest_health |-> 9,
               starvation_penalty |-> 12, max_days |-> 50]]

\* bonuses.get(key, 0): a key the table leaves out reads as 0
PROFESSION_BONUSES ==
  [banker    |-> [food |-> 0,  ammo |-> 0,  money |-> 600, health |-> 0],
   carpenter |-> [food |-> 0,  ammo |-> 10, money |-> 0,   health |-> 5],
   farmer    |-> [food |-> 50, ammo |-> 0,  money |-> 0,   health |-> 5],
   doctor    |-> [food |-> 0,  ammo |-> 0,  money |-> 0,   health |-> 10]]

WEATHER_OPTIONS ==
  << [name |-> "Mild", mod |-> 100], [name |-> "Warm", mod |-> 105],
     [name |-> "Hot", mod |-> 90], [name |-> "Cold", mod |-> 85],
     [name |-> "Freezing", mod |-> 70], [name |-> "Stormy", mod |-> 60] >>

TERRAIN_OPTIONS ==
  << [name |-> "Plains", mod |-> 100], [name |-> "Hills", mod |-> 85],
     [name |-> "Mountains", mod |-> 70], [name |-> "Desert", mod |-> 75],
     [name |-> "Forest", mod |-> 90] >>

TRADE_ITEMS == {"food", "ammo"}

Difficulty == {"easy", "normal", "hard"}

Professions == DOMAIN PROFESSION_BONUSES

Paces == DOMAIN PACE_SPEEDS

ActionNames == {"travel", "hunt", "rest", "trade"}

ON_THE_TRAIL == "On the trail"

PERISHED == "You have perished on the trail."

REACHED_OREGON == "Congratulations! You have reached Oregon City."

TIME_RAN_OUT == "Time has run out before you reached Oregon."

STARVING == "Without food your health deteriorates quickly."

(***************************************************************************)
(* Arithmetic of the engine.                                               *)
(***************************************************************************)
Max(a, b) == IF a >= b THEN a ELSE b

Min(a, b) == IF a <= b THEN a ELSE b

\* a variant of Abs that keeps the sign
Abs_keeps_sign(a) == a

Abs(a) == IF a >= 0 THEN a ELSE -a

\* round(n / d) of Python 3: to the nearest integer, a tie to the even one
RoundHalfEven(n, d) ==
  LET q == n \div d
      r == n % d
  IN  IF 2 * r > d \/ (2 * r = d /\ q % 2 = 1) THEN q + 1 ELSE q

\* math.ceil(n / d) for d > 0
Ceil(n, d) == -((-n) \div d)

settings(s) == DIFFICULTY_SETTINGS[s.difficulty]

max_days(s) == settings(s).max_days

(***************************************************************************)
(* Values of the random source.  Each roll is sampled:                     *)
(*  - randint(lo, hi) at its two ends;                                     *)
(*  - the weather and terrain rolls at the pair with the largest product   *)
(*    of modifiers and the pair with the smallest;                         *)
(*  - an offer at one end of its quantity range, with uniform(a, b) = a;   *)
(*  - the event of the day and the trading post of the next day, which the *)
(*    code rolls independently of each other, one at a time: a day with an *)
(*    event has no new post, a day with a new post has no event.           *)
(***************************************************************************)
Draw(lo, hi) == {lo, hi}

WeatherTerrainRolls ==
  {[weather |-> "Warm", terrain |-> "Plains"], [weather |-> "Stormy", terrain |-> "Mountains"]}

NoEvent == [kind |-> "none", amount |-> 0]

\* the outcomes of the two rolls of _apply_random_event and of its randint
EventRolls ==
  {NoEvent}
  \cup {[kind |-> "spoiled", amount |-> n] : n \in Draw(10, 30)}
  \cup {[kind |-> "accident", amount |-> n] : n \in Draw(8, 15)}
  \cup {[kind |-> "illness", amount |-> n] : n \in Draw(12, 20)}
  \cup {[kind |-> "bandits", amount |-> n] : n \in Draw(4, 10)}
  \cup {[kind |-> "game", amount |-> n] : n \in Draw(20, 45)}
  \cup {[kind |-> "backtrack", amount |-> 10]}

\* one offer of _maybe_prepare_trade_post; u is uniform(a, b) in hundredths and
\* flip the roll that turns the price negative
TradeOffer(item, quantity, u, flip) ==
  LET price == IF item = "food"
               THEN Max(10, (quantity * u) \div 100)
               ELSE Max(8, (quantity * u) \div 100)
  IN  [item |-> item, quantity |-> quantity, price |-> IF flip THEN -price ELSE price]

OfferRolls ==
  { TradeOffer("food", 25, 40, FALSE), TradeOffer("food", 60, 40, TRUE),
    TradeOffer("ammo", 15, 150, FALSE), TradeOffer("ammo", 6, 150, TRUE) }

SeqsUpTo(S, n) == UNION {[1..k -> S] : k \in 1..n}

\* <<>> is the roll that stocks no trading post
PostRolls == {<<>>} \cup SeqsUpTo(OfferRolls, Min(3, MaxOffers))

\* the rolls a call takes after its handler
AfterRolls ==
  {[event |-> ev, post |-> <<>>] : ev \in EventRolls}
  \cup {[event |-> NoEvent, post |-> post] : post \in PostRolls}

(***************************************************************************)
(* The engine.  A game g is the Game object: g.state is its GameState,     *)
(* g.is_over and g.current_trade_offers its two other mutable fields.      *)
(***************************************************************************)
update_weather_and_terrain(g, w, t) ==
  [g EXCEPT !.state.weather = w, !.state.terrain = t]

\* a variant of maybe_prepare_trade_post that leaves the post of the day open
\* when it stocks none for the next
maybe_prepare_trade_post_keeps_post(g, post) ==
  IF post = <<>>
  THEN g
  ELSE [g EXCEPT !.state.trade_available = TRUE, !.current_trade_offers = post]

\* a variant of maybe_prepare_trade_post that closes the post without clearing
\* its offers
maybe_prepare_trade_post_keeps_offers(g, post) ==
  IF post = <<>>
  THEN [g EXCEPT !.state.trade_available = FALSE]
  ELSE [g EXCEPT !.state.trade_available = TRUE, !.current_trade_offers = post]

\* with probability 0.3 / 0.25 the post is stocked; post = <<>> is the other roll
maybe_prepare_trade_post(g, post) ==
  IF post = <<>>
  THEN [g EXCEPT !.state.trade_available = FALSE, !.current_trade_offers = <<>>]
  ELSE [g EXCEPT !.state.trade_available = TRUE, !.current_trade_offers = post]

\* a variant of Game that leaves the health bonus of the profession out
Game_without_health_bonus(profession, difficulty, w, t, post) ==
  LET preset  == DIFFICULTY_SETTINGS[difficulty]
      bonuses == PROFESSION_BONUSES[profession]
      g0 == [state |-> [profession |-> profession,
                        difficulty |-> difficulty,
                        day |-> 1,
                        distance |-> 0,
                        food |-> preset.food + bonuses.food,
                        ammo |-> preset.ammo + bonuses.ammo,
                        money |-> preset.money + bonuses.money,
                        health |-> 100,
                        pace |-> "steady",
                        weather |-> "Mild",
                        terrain |-> "Plains",
                        alive |-> TRUE,
                        won |-> FALSE,
                        status |-> ON_THE_TRAIL,
                        event_log |-> <<>>,
                        trade_available |-> FALSE],
             is_over |-> FALSE,
             current_trade_offers |-> <<>>]
  IN  maybe_prepare_trade_post(update_weather_and_terrain(g0, w, t), post)

\* Game.__init__ for a profession of PROFESSION_BONUSES
Game(profession, difficulty, w, t, post) ==
  LET preset  == DIFFICULTY_SETTINGS[difficulty]
      bonuses == PROFESSION_BONUSES[profession]
      g0 == [state |-> [profession |-> profession,
                        difficulty |-> difficulty,
                        day |-> 1,
                        distance |-> 0,
                        food |-> preset.food + bonuses.food,
                        ammo |-> preset.ammo + bonuses.ammo,
                        money |-> preset.money + bonuses.money,
                        health |-> 100 + bonuses.health,
                        pace |-> "steady",
                        weather |-> "Mild",
                        terrain |-> "Plains",
                        alive |-> TRUE,
                        won |-> FALSE,
                        status |-> ON_THE_TRAIL,
                        event_log |-> <<>>,
                        trade_available |-> FALSE],
             is_over |-> FALSE,
             current_trade_offers |-> <<>>]
  IN  maybe_prepare_trade_post(update_weather_and_terrain(g0, w, t), post)

\* the professions a caller passes: the keys of the table as they are, in
\* capitals and between blanks, and names the table does not hold
ProfessionInputs ==
  {"banker", "carpenter", "farmer", "doctor", "Banker", " doctor ", "FARMER", "blacksmith", ""}

\* profession.lower().strip()
profession_key(profession) ==
  CASE profession = "Banker"   -> "banker"
    [] profession = " doctor " -> "doctor"
    [] profession = "FARMER"   -> "farmer"
    [] OTHER                   -> profession

\* the call Game(name, profession, difficulty): the error it raises and the
\* game it builds, <<>> when it raises
new_game(profession, difficulty, w, t, post) ==
  IF profession_key(profession) \notin DOMAIN PROFESSION_BONUSES
  THEN [error |-> "ValueError", game |-> <<>>]
  ELSE [error |-> "none",
        game |-> <<Game(profession_key(profession), difficulty, w, t, post)>>]

\* Game.available_actions: trade is listed when the post is open
available_actions(g) ==
  IF g.state.trade_available
  THEN <<"travel", "hunt", "rest", "trade">>
  ELSE <<"travel", "hunt", "rest">>

\* Game.get_trade_offers: a copy of the list
get_trade_offers(g) == g.current_trade_offers

weather_modifier(g) ==
  IF \E i \in DOMAIN WEATHER_OPTIONS : WEATHER_OPTIONS[i].name = g.state.weather
  THEN LET i == CHOOSE j \in DOMAIN WEATHER_OPTIONS : WEATHER_OPTIONS[j].name = g.state.weather
       IN  WEATHER_OPTIONS[i].mod
  ELSE 100

terrain_modifier(g) ==
  IF \E i \in DOMAIN TERRAIN_OPTIONS : TERRAIN_OPTIONS[i].name = g.state.terrain
  THEN LET i == CHOOSE j \in DOMAIN TERRAIN_OPTIONS : TERRAIN_OPTIONS[j].name = g.state.terrain
       IN  TERRAIN_OPTIONS[i].mod
  ELSE 100

\* a variant of travel_miles that rounds the miles up
travel_miles_rounded_up(pace, wmod, tmod) ==
  Max(5, Ceil(PACE_SPEEDS[pace] * wmod * tmod, 10000))

\* miles of one travel day: max(5, int(round(speed * weather * terrain)))
travel_miles(pace, wmod, tmod) ==
  Max(5, RoundHalfEven(PACE_SPEEDS[pace] * wmod * tmod, 10000))

\* int(math.ceil(BASE_FOOD_PER_DAY * max(0.0, multiplier - 1.0)))
travel_extra_food(pace) ==
  Ceil(BASE_FOOD_PER_DAY * Max(0, PACE_FOOD_MULTIPLIER[pace] - 100), 100)

\* Each handler returns the game it leaves, whether it raised ValueError,
\* and for travel the extra food of the pace.
travel(g, pace) ==
  IF pace \notin Paces
  THEN [game |-> g, raised |-> TRUE, extra_food |-> 0]
  ELSE [game |-> [g EXCEPT !.state.distance =
                               @ + travel_miles(pace, weather_modifier(g), terrain_modifier(g)),
                           !.state.pace = pace],
        raised |-> FALSE,
        extra_food |-> travel_extra_food(pace)]

\* a variant of hunt that brings back the game without the two units of food
\* for each unit of ammunition
hunt_without_ammo_bonus(g, ammo_override, gain) ==
  LET ammo_cost == IF ammo_override # <<>> THEN ammo_override[1] ELSE 5
  IN  IF ammo_cost <= 0 \/ g.state.ammo < ammo_cost
      THEN [game |-> g, raised |-> TRUE]
      ELSE [game |-> [g EXCEPT !.state.ammo = @ - ammo_cost,
                               !.state.food = @ + gain],
            raised |-> FALSE]

\* a variant of hunt that takes the ammunition before it checks the stock
hunt_deducts_first(g, ammo_override, gain) ==
  LET ammo_cost == IF ammo_override # <<>> THEN ammo_override[1] ELSE 5
      taken     == [g EXCEPT !.state.ammo = @ - ammo_cost]
  IN  IF ammo_cost <= 0 THEN [game |-> g, raised |-> TRUE]
      ELSE IF taken.state.ammo < 0 THEN [game |-> taken, raised |-> TRUE]
      ELSE [game |-> [taken EXCEPT !.state.food = @ + gain + ammo_cost * 2],
            raised |-> FALSE]

\* ammo_override is <<>> for None and <<a>> for the integer a
hunt(g, ammo_override, gain) ==
  LET ammo_cost == IF ammo_override # <<>> THEN ammo_override[1] ELSE 5
  IN  IF ammo_cost <= 0 \/ g.state.ammo < ammo_cost
      THEN [game |-> g, raised |-> TRUE]
      ELSE [game |-> [g EXCEPT !.state.ammo = @ - ammo_cost,
                               !.state.food = @ + gain + ammo_cost * 2],
            raised |-> FALSE]

rest(g) ==
  [game |-> [g EXCEPT !.state.health = Min(100, @ + settings(g.state).rest_health)],
   raised |-> FALSE]

add_resource(g, item, amount) ==
  IF item = "food" THEN [g EXCEPT !.state.food = Max(0, @ + amount)]
  ELSE [g EXCEPT !.state.ammo = Max(0, @ + amount)]

get_resource(g, item) ==
  IF item = "food" THEN g.state.food ELSE g.state.ammo

\* a variant of Pop that drops the last element: list.pop()
Pop_last(seq, i) == SubSeq(seq, 1, Len(seq) - 1)

\* list.pop(i) of a 0-based index i
Pop(seq, i) == [k \in 1..(Len(seq) - 1) |-> IF k <= i THEN seq[k] ELSE seq[k + 1]]

\* offer_index is <<>> for None and <<i>> for the 0-based index i
trade(g, offer_index) ==
  IF ~g.state.trade_available \/ g.current_trade_offers = <<>>
  THEN [game |-> g, raised |-> FALSE]
  ELSE IF offer_index = <<>>
  THEN [game |-> [g EXCEPT !.state.trade_available = FALSE,
                           !.current_trade_offers = <<>>],
        raised |-> FALSE]
  ELSE IF offer_index[1] < 0 \/ offer_index[1] >= Len(g.current_trade_offers)
  THEN [game |-> g, raised |-> TRUE]
  ELSE
    LET i     == offer_index[1]
        offer == g.current_trade_offers[i + 1]
        done(h) == [h EXCEPT !.state.trade_available = FALSE,
                             !.current_trade_offers = Pop(@, i)]
    IN  IF offer.item \notin TRADE_ITEMS
        THEN [game |-> g, raised |-> TRUE]
        ELSE IF offer.price > 0
        THEN IF g.state.money < offer.price
             THEN [game |-> g, raised |-> TRUE]
             ELSE [game |-> done(add_resource([g EXCEPT !.state.money = @ - offer.price],
                                              offer.item, offer.quantity)),
                   raised |-> FALSE]
        ELSE IF get_resource(g, offer.item) < offer.quantity
             THEN [game |-> g, raised |-> TRUE]
             ELSE [game |-> done([add_resource(g, offer.item, -offer.quantity)
                                    EXCEPT !.state.money = @ + Abs(offer.price)]),
                   raised |-> FALSE]

\* a variant of consume_food that leaves out the floor at zero
consume_food_unfloored(g, amount) ==
  [g EXCEPT !.state.food = @ - Max(0, amount)]

consume_food(g, amount) ==
  [g EXCEPT !.state.food = Max(0, @ - Max(0, amount))]

\* ev is the outcome of the rolls: no event, or one of the six with its amount
apply_random_event(g, ev) ==
  CASE ev.kind = "none"      -> g
    [] ev.kind = "spoiled"   -> [g EXCEPT !.state.food = Max(0, @ - ev.amount)]
    [] ev.kind = "accident"  -> [g EXCEPT !.state.health = Max(0, @ - ev.amount)]
    [] ev.kind = "illness"   -> [g EXCEPT !.state.health = Max(0, @ - ev.amount)]
    [] ev.kind = "bandits"   -> [g EXCEPT !.state.ammo = @ - Min(@, ev.amount)]
    [] ev.kind = "game"      -> [g EXCEPT !.state.food = @ + ev.amount]
    [] ev.kind = "backtrack" -> [g EXCEPT !.state.distance = Max(0, @ - 10)]

\* the starvation penalty of _end_of_day
starvation(g) ==
  IF g.state.food <= 0
  THEN [g EXCEPT !.state.health = Max(0, @ - settings(g.state).starvation_penalty),
                 !.state.event_log = Append(@, STARVING)]
  ELSE g

\* a variant of end_of_day that applies the starvation after its checks
end_of_day_starves_last(g) ==
  starvation(
    IF g.state.health <= 0
    THEN [g EXCEPT !.state.alive = FALSE, !.state.status = PERISHED, !.is_over = TRUE]
    ELSE IF g.state.distance >= TARGET_MILES
    THEN [g EXCEPT !.state.won = TRUE, !.state.status = REACHED_OREGON, !.is_over = TRUE]
    ELSE IF g.state.day >= max_days(g.state)
    THEN [g EXCEPT !.state.alive = FALSE, !.state.status = TIME_RAN_OUT, !.is_over = TRUE]
    ELSE [g EXCEPT !.state.status = ON_THE_TRAIL])

\* a variant of end_of_day that checks the victory before the death
end_of_day_victory_first(g) ==
  LET g1 == starvation(g)
  IN  IF g1.state.distance >= TARGET_MILES
      THEN [g1 EXCEPT !.state.won = TRUE, !.state.status = REACHED_OREGON, !.is_over = TRUE]
      ELSE IF g1.state.health <= 0
      THEN [g1 EXCEPT !.state.alive = FALSE, !.state.status = PERISHED, !.is_over = TRUE]
      ELSE IF g1.state.day >= max_days(g1.state)
      THEN [g1 EXCEPT !.state.alive = FALSE, !.state.status = TIME_RAN_OUT, !.is_over = TRUE]
      ELSE [g1 EXCEPT !.state.status = ON_THE_TRAIL]

\* a variant of end_of_day whose time limit ends the game and leaves alive set
end_of_day_time_keeps_alive(g) ==
  LET g1 == starvation(g)
  IN  IF g1.state.health <= 0
      THEN [g1 EXCEPT !.state.alive = FALSE, !.state.status = PERISHED, !.is_over = TRUE]
      ELSE IF g1.state.distance >= TARGET_MILES
      THEN [g1 EXCEPT !.state.won = TRUE, !.state.status = REACHED_OREGON, !.is_over = TRUE]
      ELSE IF g1.state.day >= max_days(g1.state)
      THEN [g1 EXCEPT !.state.status = TIME_RAN_OUT, !.is_over = TRUE]
      ELSE [g1 EXCEPT !.state.status = ON_THE_TRAIL]

\* a variant of end_of_day that lets the party travel one day past max_days
end_of_day_one_day_late(g) ==
  LET g1 == starvation(g)
  IN  IF g1.state.health <= 0
      THEN [g1 EXCEPT !.state.alive = FALSE, !.state.status = PERISHED, !.is_over = TRUE]
      ELSE IF g1.state.distance >= TARGET_MILES
      THEN [g1 EXCEPT !.state.won = TRUE, !.state.status = REACHED_OREGON, !.is_over = TRUE]
      ELSE IF g1.state.day > max_days(g1.state)
      THEN [g1 EXCEPT !.state.alive = FALSE, !.state.status = TIME_RAN_OUT, !.is_over = TRUE]
      ELSE [g1 EXCEPT !.state.status = ON_THE_TRAIL]

end_of_day(g) ==
  LET g1 == starvation(g)
  IN  IF g1.state.health <= 0
      THEN [g1 EXCEPT !.state.alive = FALSE, !.state.status = PERISHED, !.is_over = TRUE]
      ELSE IF g1.state.distance >= TARGET_MILES
      THEN [g1 EXCEPT !.state.won = TRUE, !.state.status = REACHED_OREGON, !.is_over = TRUE]
      ELSE IF g1.state.day >= max_days(g1.state)
      THEN [g1 EXCEPT !.state.alive = FALSE, !.state.status = TIME_RAN_OUT, !.is_over = TRUE]
      ELSE [g1 EXCEPT !.state.status = ON_THE_TRAIL]

\* a variant of day_food that takes the whole ration on a day at the trading post
day_food_full_ration_at_post(action, extra_food) ==
  BASE_FOOD_PER_DAY + extra_food

\* a variant of day_food in which the extra food of the pace replaces the ration
day_food_without_ration(action, extra_food) ==
  IF action = "trade" THEN Max(1, BASE_FOOD_PER_DAY - 2)
  ELSE extra_food

\* food_consumed of perform_action: the ration and the extra food of the pace,
\* or the smaller ration of a day at the trading post
day_food(action, extra_food) ==
  IF action = "trade" THEN Max(1, BASE_FOOD_PER_DAY - 2)
  ELSE BASE_FOOD_PER_DAY + extra_food

\* the handler of the action and the food the day consumes
run_handler(g, action, arg, gain) ==
  CASE action = "travel" ->
         LET r == travel(g, IF arg # <<>> THEN arg[1] ELSE g.state.pace)
         IN  [game |-> r.game, raised |-> r.raised,
              food_consumed |-> day_food(action, r.extra_food)]
    [] action = "hunt" ->
         LET r == hunt(g, arg, gain)
         IN  [game |-> r.game, raised |-> r.raised, food_consumed |-> day_food(action, 0)]
    [] action = "rest" ->
         LET r == rest(g)
         IN  [game |-> r.game, raised |-> r.raised, food_consumed |-> day_food(action, 0)]
    [] action = "trade" ->
         LET r == trade(g, arg)
         IN  [game |-> r.game, raised |-> r.raised, food_consumed |-> day_food(action, 0)]

\* TradeOffer.describe: the verb, the quantity, the item and the cost of the text
describe(offer) ==
  [verb |-> IF offer.price > 0 THEN "Buy" ELSE "Sell",
   quantity |-> offer.quantity, item |-> offer.item, cost |-> Abs(offer.price)]

\* the snapshot perform_action returns: GameState.snapshot and the offers
snapshot(g) ==
  [state |-> g.state,
   trade_offers |-> [i \in DOMAIN g.current_trade_offers |-> describe(g.current_trade_offers[i])]]

\* a variant of finish_day that counts the day before it looks at the end
finish_day_counts_last_day(g, food_consumed, ev, post) ==
  LET g2 == end_of_day(apply_random_event(consume_food(g, food_consumed), ev))
  IN  [game |-> IF ~g2.is_over
                THEN maybe_prepare_trade_post([g2 EXCEPT !.state.day = @ + 1], post)
                ELSE [g2 EXCEPT !.state.day = @ + 1],
       error |-> "none",
       snapshot |-> <<snapshot(g2)>>]

\* the end of perform_action, once the handler has run: the food of the day,
\* the random event, the end of the day, the snapshot, then the next day
finish_day(g, food_consumed, ev, post) ==
  LET g2 == end_of_day(apply_random_event(consume_food(g, food_consumed), ev))
  IN  [game |-> IF ~g2.is_over
                THEN maybe_prepare_trade_post([g2 EXCEPT !.state.day = @ + 1], post)
                ELSE g2,
       error |-> "none",
       snapshot |-> <<snapshot(g2)>>]

\* perform_action for a game that is not over and an action it knows
run_day(g, action, arg, w, t, gain, ev, post) ==
  LET g1 == update_weather_and_terrain([g EXCEPT !.state.event_log = <<>>], w, t)
      h  == run_handler(g1, action, arg, gain)
  IN  IF h.raised
      THEN [game |-> h.game, error |-> "ValueError", snapshot |-> <<>>]
      ELSE finish_day(h.game, h.food_consumed, ev, post)

\* a variant of perform_action that looks at the action before the end of the game
perform_action_action_first(g, action, arg, w, t, gain, ev, post) ==
  IF action \notin ActionNames THEN [game |-> g, error |-> "ValueError", snapshot |-> <<>>]
  ELSE IF g.is_over THEN [game |-> g, error |-> "RuntimeError", snapshot |-> <<>>]
  ELSE run_day(g, action, arg, w, t, gain, ev, post)

\* Game.perform_action: the game it leaves, the error it raised and, when it
\* raised none, the snapshot it returned
perform_action(g, action, arg, w, t, gain, ev, post) ==
  IF g.is_over THEN [game |-> g, error |-> "RuntimeError", snapshot |-> <<>>]
  ELSE IF action \notin ActionNames THEN [game |-> g, error |-> "ValueError", snapshot |-> <<>>]
  ELSE run_day(g, action, arg, w, t, gain, ev, post)

(***************************************************************************)
(* The state machine.  ret is what the last call of perform_action gave    *)
(* back to its caller: the action and argument of the call, the error it   *)
(* raised, the random event of its day, the offers rolled for the next day *)
(* and the snapshot it returned.  A                                        *)
(* behaviour follows a game                                                *)
(* through the calls that raise ValueError, through one call that          *)
(* completes and, when that call ended the game, through one call that the *)
(* ended game refuses.                                                     *)
(***************************************************************************)
game == [state |-> state, is_over |-> is_over, current_trade_offers |-> current_trade_offers]

NoCall ==
  [action |-> "new", arg |-> <<>>, error |-> "none", event |-> "none", post |-> <<>>,
   snapshot |-> <<>>]

Starts(g) ==
  /\ state = g.state
  /\ is_over = g.is_over
  /\ current_trade_offers = g.current_trade_offers
  /\ ret = NoCall

\* a new game: every profession and difficulty, every roll of the constructor
Init ==
  \E profession \in ProfessionInputs, difficulty \in Difficulty,
     wt \in WeatherTerrainRolls, post \in PostRolls :
    \E r \in {new_game(profession, difficulty, wt.weather, wt.terrain, post)} :
      /\ r.error = "none"
      /\ Starts(r.game[1])

\* a game in progress, between two calls: the trading post is open exactly
\* when it has offers, and the log holds the message of a day that ended
\* without food
InProgress(difficulty, day, distance, food, ammo, money, health, post) ==
  [state |-> [profession |-> "banker",
              difficulty |-> difficulty,
              day |-> day,
              distance |-> distance,
              food |-> food,
              ammo |-> ammo,
              money |-> money,
              health |-> health,
              pace |-> "steady",
              weather |-> "Warm",
              terrain |-> "Plains",
              alive |-> TRUE,
              won |-> FALSE,
              status |-> ON_THE_TRAIL,
              event_log |-> IF food = 0 THEN <<STARVING>> ELSE <<>>,
              trade_available |-> post # <<>>],
   is_over |-> FALSE,
   current_trade_offers |-> post]

\* what a party has left late in a game: next to nothing, or plenty
LateStocks ==
  {[ammo |-> 3, money |-> 5, distance |-> 3], [ammo |-> 40, money |-> 500, distance |-> 700]}

LatePosts ==
  { <<>>,
    <<TradeOffer("food", 25, 40, FALSE), TradeOffer("ammo", 6, 150, TRUE)>>,
    <<TradeOffer("food", 25, 40, TRUE), TradeOffer("ammo", 15, 150, FALSE)>> }

\* the last two days of a game in progress
InitLate ==
  \E difficulty \in Difficulty, left \in {0, 1}, health \in {9, 100}, food \in {0, 4, 30},
     stock \in LateStocks, post \in LatePosts :
    Starts(InProgress(difficulty, DIFFICULTY_SETTINGS[difficulty].max_days - left,
                      stock.distance, food, stock.ammo, stock.money, health, post))

\* a game whose caller has set the distance next to TARGET_MILES, as the tests
\* set game.state.health: no sequence of calls takes a new game that far
InitNearTarget ==
  \E difficulty \in Difficulty, last \in BOOLEAN, health \in {9, 100}, food \in {0, 30},
     distance \in {TARGET_MILES - 20, TARGET_MILES - 5} :
    Starts(InProgress(difficulty,
                      IF last THEN DIFFICULTY_SETTINGS[difficulty].max_days ELSE 1,
                      distance, food, 40, 500, health, <<>>))

\* a party that has travelled every day so far at the grueling pace in warm
\* weather over the plains, 25 miles a day, and never accepted a trade: on its
\* second day, on the day before the last and on the last
FurthestDays(difficulty) ==
  {2, DIFFICULTY_SETTINGS[difficulty].max_days - 1, DIFFICULTY_SETTINGS[difficulty].max_days}

InitFurthest ==
  \E difficulty \in Difficulty, health \in {9, 100}, food \in {0, 30}, post \in LatePosts :
    \E day \in FurthestDays(difficulty) :
      Starts(InProgress(difficulty, day, 25 * (day - 1), food, 40,
                        DIFFICULTY_SETTINGS[difficulty].money
                          + PROFESSION_BONUSES["banker"].money,
                        health, post))

\* the calls a behaviour follows
Explored ==
  \/ ret.action = "new"
  \/ ret.error = "ValueError"
  \/ is_over /\ ret.error = "none"

PaceArgs == {<<>>} \cup {<<p>> : p \in Paces} \cup {<<"gallop">>}

HuntArgs == {<<>>, <<0>>, <<state.ammo>>, <<state.ammo + 1>>}

\* decline, every index of the list, one below and one above
TradeArgs == {<<>>} \cup {<<i>> : i \in -1..Len(current_trade_offers)}

\* one call perform_action(action, arg) under the given rolls
Call(action, arg, wt, gain, after) ==
  \E r \in {perform_action(game, action, arg, wt.weather, wt.terrain, gain,
                           after.event, after.post)} :
    /\ state' = r.game.state
    /\ is_over' = r.game.is_over
    /\ current_trade_offers' = r.game.current_trade_offers
    /\ ret' = [action |-> action, arg |-> arg, error |-> r.error,
               event |-> IF r.error = "none" THEN after.event.kind ELSE "none",
               post |-> IF r.error = "none" /\ ~r.game.is_over THEN after.post ELSE <<>>,
               snapshot |-> r.snapshot]

NoAfter == [event |-> NoEvent, post |-> <<>>]

\* the call raises before it takes a roll: the game is over or the action unknown
Refused(action) == is_over \/ action \notin ActionNames

\* the handler raises: the call takes no roll after the weather and the terrain
Raises(action, arg) ==
  perform_action(game, action, arg, state.weather, state.terrain, 25, NoEvent, <<>>).error # "none"

\* perform_action(action, arg) under every roll it takes; gains are the values
\* of the randint of _hunt
Step(action, arg, gains) ==
  IF Refused(action)
  THEN Call(action, arg, [weather |-> state.weather, terrain |-> state.terrain], 25, NoAfter)
  ELSE \E wt \in WeatherTerrainRolls :
         IF Raises(action, arg)
         THEN Call(action, arg, wt, 25, NoAfter)
         ELSE \E gain \in gains, after \in AfterRolls : Call(action, arg, wt, gain, after)

PerformTravel ==
  /\ Explored
  /\ \E arg \in PaceArgs : Step("travel", arg, {25})

PerformHunt ==
  /\ Explored
  /\ \E arg \in HuntArgs : Step("hunt", arg, Draw(25, 55))

PerformRest ==
  /\ Explored
  /\ Step("rest", <<>>, {25})

PerformTrade ==
  /\ Explored
  /\ \E arg \in TradeArgs : Step("trade", arg, {25})

\* an action name perform_action does not know
PerformUnknown ==
  /\ Explored
  /\ Step("swim", <<>>, {25})

Next ==
  \/ PerformTravel
  \/ PerformHunt
  \/ PerformRest
  \/ PerformTrade
  \/ PerformUnknown

Spec == Init /\ [][Next]_vars

SpecLate == InitLate /\ [][Next]_vars

SpecNearTarget == InitNearTarget /\ [][Next]_vars

\* new games and the parties that have come the furthest their day allows
SpecFurthest == (Init \/ InitFurthest) /\ [][Next]_vars

(***************************************************************************)
(* A game played to its end, as the loop of the command line plays it: one *)
(* call after the other until is_over.  The rolls after the handler are    *)
(* sampled more thinly here, an uneventful day, an illness and a new post, *)
(* and the game is taken up on the day before its last.                    *)
(***************************************************************************)
PlayedRolls ==
  {NoAfter,
   [event |-> [kind |-> "illness", amount |-> 20], post |-> <<>>],
   [event |-> NoEvent, post |-> <<TradeOffer("food", 25, 40, FALSE)>>]}

InitLastDays ==
  \E difficulty \in Difficulty, stock \in {[health |-> 9, food |-> 0],
                                               [health |-> 100, food |-> 30]} :
    Starts(InProgress(difficulty, DIFFICULTY_SETTINGS[difficulty].max_days - 1,
                      700, stock.food, 40, 500, stock.health, <<>>))

Play(action, arg) ==
  \E wt \in WeatherTerrainRolls, after \in PlayedRolls : Call(action, arg, wt, 25, after)

PlayTravel ==
  /\ ~is_over
  /\ \E arg \in {<<>>, <<"gallop">>} : Play("travel", arg)

PlayHunt ==
  /\ ~is_over
  /\ \E arg \in {<<>>, <<0>>} : Play("hunt", arg)

PlayRest ==
  /\ ~is_over
  /\ Play("rest", <<>>)

PlayTrade ==
  /\ ~is_over
  /\ \E arg \in {<<>>, <<0>>} : Play("trade", arg)

NextPlayed ==
  \/ PlayRest
  \/ PlayTravel
  \/ PlayHunt
  \/ PlayTrade

\* the caller keeps making calls that complete: the loop of main() asks for
\* the next action for as long as the game is not over
KeepsPlaying == WF_vars(NextPlayed /\ ret'.error = "none")

SpecPlayedOut == InitLastDays /\ [][NextPlayed]_vars /\ KeepsPlaying

(***************************************************************************)
(* The properties.                                                         *)
(***************************************************************************)
\* the last call completed: it raised no error and returned a snapshot
Completed == ret.action \in ActionNames /\ ret.error = "none"

\* the state the last completed call reported: the end of its day
Reported == ret.snapshot[1].state

\* every game the constructor can build under the rolls of the model
NewGames ==
  {Game(profession, difficulty, wt.weather, wt.terrain, post) :
     profession \in Professions, difficulty \in Difficulty,
     wt \in WeatherTerrainRolls, post \in PostRolls}

\* C1: in every state reached by calls of perform_action, completed or
\* failing, food, ammo, money and distance are at least 0.
C1_ResourcesNeverNegative ==
  /\ state.food >= 0
  /\ state.ammo >= 0
  /\ state.money >= 0
  /\ state.distance >= 0

\* a day of rest ended without food: the ration was taken from a stock below
\* it, and the health fell with the starvation
C1_RationTakenFromShortStock ==
  /\ Completed
  /\ ret.action = "rest"
  /\ ret.event = "none"
  /\ state.food = 0
  /\ state.health < 100

\* C2: in every reachable state, the initial state of every profession and
\* difficulty included, health is an integer from 0 to 100.
C2_HealthWithinBounds == state.health \in 0..100

\* C3: once is_over holds, every call of perform_action, whatever the action
\* name and the parameters, raises RuntimeError and leaves the whole game as
\* it was; is_over stays true.
C3_TerminalGameRefusesEveryCall ==
  [][is_over => /\ ret'.error = "RuntimeError"
                /\ state' = state
                /\ current_trade_offers' = current_trade_offers
                /\ is_over']_vars

\* an ended game has refused an action name it does not know
C3_EndedGameRefusedUnknownAction ==
  /\ is_over
  /\ ret.action = "swim"
  /\ ret.error = "RuntimeError"

\* C4: at the end of every completed action the checks run in the order
\* death, victory, time limit and the first that applies decides: health <= 0
\* gives alive false and won false, even at distance >= 2000; otherwise
\* distance >= 2000 gives won true and alive true, even at day >= max_days;
\* otherwise day >= max_days gives alive false and won false; otherwise the
\* game is not over and the status is "On the trail".
C4_TerminalChecksInOrder ==
  Completed =>
    IF Reported.health <= 0
    THEN is_over /\ ~Reported.alive /\ ~Reported.won /\ Reported.status = PERISHED
    ELSE IF Reported.distance >= TARGET_MILES
    THEN is_over /\ Reported.won /\ Reported.alive /\ Reported.status = REACHED_OREGON
    ELSE IF Reported.day >= max_days(Reported)
    THEN is_over /\ ~Reported.alive /\ ~Reported.won /\ Reported.status = TIME_RAN_OUT
    ELSE ~is_over /\ Reported.alive /\ ~Reported.won /\ Reported.status = ON_THE_TRAIL

\* the party died on the day it passed TARGET_MILES
C4_DiedPastTheTarget ==
  /\ Completed
  /\ Reported.health <= 0
  /\ Reported.distance >= TARGET_MILES
  /\ ~Reported.alive

\* C5: in every reachable state the game is over exactly when alive is false
\* or won is true, alive false and won true never hold together, and a game
\* that is not over has alive true and won false.
C5_OverIffDeadOrWon ==
  /\ is_over <=> (~state.alive \/ state.won)
  /\ ~(~state.alive /\ state.won)
  /\ ~is_over => (state.alive /\ ~state.won)

\* the time limit ended the game of a party in good health
C5_TimeRanOut ==
  /\ Completed
  /\ is_over
  /\ state.status = TIME_RAN_OUT
  /\ state.health > 0
  /\ ~state.alive

\* C6: day starts at 1 and never decreases; a call that completes and leaves
\* the game not over adds exactly 1 to day; the call that ends the game and
\* every call that fails leave day as it was.
C6_DayCountsCompletedDays ==
  /\ \A g \in NewGames : g.state.day = 1
  /\ [][/\ state'.day >= state.day
        /\ state'.day = IF ret'.error = "none" /\ ~is_over'
                        THEN state.day + 1
                        ELSE state.day]_vars

\* a completed call has taken a game from the day before the last to the last
C6_ReachedLastDay ==
  /\ Completed
  /\ ~is_over
  /\ Reported.day = max_days(state) - 1
  /\ state.day = max_days(state)

\* C7: a hunt of a game in progress with ammo_spent greater than the stock
\* raises ValueError and leaves every field of the state and the list of
\* offers as they were.
C7_FailedHuntLeavesStateUnchanged ==
  [][(/\ ~is_over
      /\ ret'.action = "hunt"
      /\ ret'.arg # <<>>
      /\ ret'.arg[1] > state.ammo)
     => /\ ret'.error = "ValueError"
        /\ state' = state
        /\ current_trade_offers' = current_trade_offers]_vars

\* C8: a call that raises ValueError leaves day, distance, food, ammo, money,
\* health, pace, alive, won, is_over, trade_available and the list of offers
\* as they were.
C8_ValueErrorKeepsResources ==
  [][ret'.error = "ValueError"
     => /\ state'.day = state.day
        /\ state'.distance = state.distance
        /\ state'.food = state.food
        /\ state'.ammo = state.ammo
        /\ state'.money = state.money
        /\ state'.health = state.health
        /\ state'.pace = state.pace
        /\ state'.alive = state.alive
        /\ state'.won = state.won
        /\ is_over' = is_over
        /\ state'.trade_available = state.trade_available
        /\ current_trade_offers' = current_trade_offers]_vars

\* a purchase was refused for want of money
C8_PurchaseRefused ==
  /\ ret.action = "trade"
  /\ ret.error = "ValueError"
  /\ ret.arg # <<>>
  /\ ret.arg[1] \in 0..(Len(current_trade_offers) - 1)
  /\ current_trade_offers[ret.arg[1] + 1].price > state.money

\* a travel of a game in progress that completes on a day without random event
TravelDay ==
  /\ ~is_over
  /\ ret'.action = "travel"
  /\ ret'.error = "none"
  /\ ret'.event = "none"

\* C9 as stated: on a day without random event a completed travel, whatever
\* the stock of food, adds at least 5 to distance and takes at least the base
\* ration of 5 from food.
C9_TravelTakesFullRation ==
  [][TravelDay => /\ state'.distance >= state.distance + 5
                  /\ state'.food <= state.food - BASE_FOOD_PER_DAY]_vars

\* C9 amended: on a day without random event a completed travel adds at least
\* 5 to distance and leaves food at most max(0, food - 5): at least the base
\* ration is taken from a stock that holds it, and a smaller stock goes to 0.
C9_TravelTakesRationOrAllFood ==
  [][TravelDay => /\ state'.distance >= state.distance + 5
                  /\ state'.food <= Max(0, state.food - BASE_FOOD_PER_DAY)]_vars

\* a travel day without random event that left the party without food
C9_TravelledOnShortStock ==
  /\ Completed
  /\ ret.action = "travel"
  /\ ret.event = "none"
  /\ state.food = 0
  /\ state.distance > 0

\* the call accepts offer i of an open trading post, a purchase the party can
\* pay, on a day without random event
Purchase(i) ==
  /\ ~is_over
  /\ state.trade_available
  /\ ret'.action = "trade"
  /\ ret'.arg = <<i>>
  /\ current_trade_offers[i + 1].price > 0
  /\ current_trade_offers[i + 1].price <= state.money
  /\ ret'.event = "none"

\* C10 as stated: a purchase of offer i at price p <= money on a day without
\* random event leaves money p lower and the resource bought exactly the
\* quantity of the offer higher, and the offer is no longer in the list.
C10_PurchaseAddsQuantity ==
  [][\A i \in 0..(Len(current_trade_offers) - 1) :
       Purchase(i) =>
         LET offer == current_trade_offers[i + 1]
         IN  /\ state'.money = state.money - offer.price
             /\ get_resource([state |-> state'], offer.item)
                  = get_resource(game, offer.item) + offer.quantity
             /\ \A k \in DOMAIN current_trade_offers' :
                  current_trade_offers'[k] # offer]_vars

\* C10 amended: a purchase of offer i at price p <= money on a day without
\* random event completes and leaves money p lower; ammunition bought leaves
\* ammo the quantity higher; food bought leaves food the quantity less the
\* ration of the trading day (3) higher; the list of offers the call reports
\* is the list before the call without its position i.
C10_PurchaseAddsQuantityLessRation ==
  [][\A i \in 0..(Len(current_trade_offers) - 1) :
       Purchase(i) =>
         LET offer == current_trade_offers[i + 1]
         IN  /\ ret'.error = "none"
             /\ state'.money = state.money - offer.price
             /\ offer.item = "ammo" => state'.ammo = state.ammo + offer.quantity
             /\ offer.item = "food" =>
                  state'.food = state.food + offer.quantity - day_food("trade", 0)
             /\ ret'.snapshot[1].trade_offers
                  = [k \in 1..(Len(current_trade_offers) - 1) |->
                       describe(current_trade_offers[IF k <= i THEN k ELSE k + 1])]]_vars

\* the first of two offers, 25 units of food for 10, was accepted: the call
\* reports the other offer, 10 less money and 22 more food
C10_BoughtFood ==
  /\ Completed
  /\ ret.action = "trade"
  /\ ret.arg = <<0>>
  /\ ret.event = "none"
  /\ Len(ret.snapshot[1].trade_offers) = 1
  /\ ret.snapshot[1].trade_offers[1].verb = "Sell"
  /\ Reported.money = 490
  /\ Reported.food = 52

\* C11: for every profession of the table and every difficulty the new game
\* has the food, the ammo and the money of the preset plus the bonus of the
\* profession and the health 100 plus the bonus, on day 1 at distance 0
\* (normal and banker: food 240, ammo 55, money 1700, health 100); a
\* profession the table does not hold raises ValueError and builds no game.
C11_InitialResources ==
  ret.action = "new" =>
    /\ state.food = DIFFICULTY_SETTINGS[state.difficulty].food
                      + PROFESSION_BONUSES[state.profession].food
    /\ state.ammo = DIFFICULTY_SETTINGS[state.difficulty].ammo
                      + PROFESSION_BONUSES[state.profession].ammo
    /\ state.money = DIFFICULTY_SETTINGS[state.difficulty].money
                       + PROFESSION_BONUSES[state.profession].money
    /\ state.health = 100 + PROFESSION_BONUSES[state.profession].health
    /\ state.day = 1
    /\ state.distance = 0
    /\ (state.profession = "banker" /\ state.difficulty = "normal")
         => (state.food = 240 /\ state.ammo = 55 /\ state.money = 1700 /\ state.health = 100)
    /\ (state.profession = "doctor" /\ state.difficulty = "hard")
         => (state.food = 200 /\ state.ammo = 45 /\ state.money = 900 /\ state.health = 110)
    /\ \A profession \in ProfessionInputs :
         LET r == new_game(profession, state.difficulty, state.weather, state.terrain,
                           current_trade_offers)
         IN  IF profession_key(profession) \in {"banker", "carpenter", "farmer", "doctor"}
             THEN r.error = "none" /\ Len(r.game) = 1
             ELSE r.error = "ValueError" /\ r.game = <<>>

\* a new game of a doctor on the hard difficulty, before any call
C11_NewDoctorOnHard ==
  /\ ret.action = "new"
  /\ state.profession = "doctor"
  /\ state.difficulty = "hard"
  /\ state.health = 110
  /\ state.money = 900

(***************************************************************************)
(* The random source as a stream.  A generator is the seed it was built    *)
(* from, or what an unseeded random.Random() took from the system, and the *)
(* number of values it has given; a value is a function of both.  The      *)
(* engine takes its values in the order of its code: weather, terrain, the *)
(* randint of a hunt, the event and its kind and amount, the trading post  *)
(* of the next day and its offers.                                         *)
(***************************************************************************)
Seeds == {0, 1}

\* what an unseeded generator takes from the system: it differs from run to run
Entropy == {1, 2}

unseeded(entropy) == [seeded |-> FALSE, key |-> entropy, pos |-> 0]

\* a variant of make_rng that tests the seed for truth: the seed 0 reads as no seed
make_rng_truthy_seed(seed, entropy) ==
  IF seed # <<>> /\ seed[1] # 0
  THEN [seeded |-> TRUE, key |-> seed[1], pos |-> 0]
  ELSE unseeded(entropy)

\* random.Random(args.seed) if args.seed is not None else None, and in the
\* constructor rng or random.Random(); seed is <<>> for None and <<n>> for n
make_rng(seed, entropy) ==
  IF seed # <<>>
  THEN [seeded |-> TRUE, key |-> seed[1], pos |-> 0]
  ELSE unseeded(entropy)

\* the k-th value the generator gives next
raw(rng, k) ==
  ((IF rng.seeded THEN 3 ELSE 11) * (rng.key + 1)
     + 7 * (rng.pos + k) + rng.key * (rng.pos + k) * (rng.pos + k)) % 60

advance(rng, n) == [rng EXCEPT !.pos = @ + n]

\* the two rng.choices of _update_weather_and_terrain
weather_of(rng) == WEATHER_OPTIONS[1 + (raw(rng, 1) % Len(WEATHER_OPTIONS))].name

terrain_of(rng) == TERRAIN_OPTIONS[1 + (raw(rng, 2) % Len(TERRAIN_OPTIONS))].name

\* rng.randint(lo, hi) from the k-th value
randint_of(rng, k, lo, hi) == lo + (raw(rng, k) % (hi - lo + 1))

\* _apply_random_event after n values: the event and the values it took
event_of(rng, n) ==
  IF raw(rng, n + 1) % 2 = 1
  THEN [event |-> NoEvent, draws |-> 1]
  ELSE CASE raw(rng, n + 2) % 6 = 0 ->
              [event |-> [kind |-> "spoiled", amount |-> randint_of(rng, n + 3, 10, 30)],
               draws |-> 3]
         [] raw(rng, n + 2) % 6 = 1 ->
              [event |-> [kind |-> "accident", amount |-> randint_of(rng, n + 3, 8, 15)],
               draws |-> 3]
         [] raw(rng, n + 2) % 6 = 2 ->
              [event |-> [kind |-> "illness", amount |-> randint_of(rng, n + 3, 12, 20)],
               draws |-> 3]
         [] raw(rng, n + 2) % 6 = 3 ->
              [event |-> [kind |-> "bandits", amount |-> randint_of(rng, n + 3, 4, 10)],
               draws |-> 3]
         [] raw(rng, n + 2) % 6 = 4 ->
              [event |-> [kind |-> "game", amount |-> randint_of(rng, n + 3, 20, 45)],
               draws |-> 3]
         [] OTHER ->
              [event |-> [kind |-> "backtrack", amount |-> 10], draws |-> 2]

\* one offer of _maybe_prepare_trade_post from the four values after n
offer_of(rng, n) ==
  IF raw(rng, n + 1) % 2 = 0
  THEN TradeOffer("food", randint_of(rng, n + 2, 25, 60), randint_of(rng, n + 3, 40, 70),
                  raw(rng, n + 4) % 4 = 0)
  ELSE TradeOffer("ammo", randint_of(rng, n + 2, 6, 15), randint_of(rng, n + 3, 150, 200),
                  raw(rng, n + 4) % 4 = 0)

\* _maybe_prepare_trade_post after n values: the offers and the values it took
post_of(rng, n) ==
  IF raw(rng, n + 1) % 4 # 0
  THEN [offers |-> <<>>, draws |-> 1]
  ELSE LET num_offers == randint_of(rng, n + 2, 1, 3)
       IN  [offers |-> [i \in 1..num_offers |-> offer_of(rng, n + 2 + 4 * (i - 1))],
            draws |-> 2 + 4 * num_offers]

\* Game(name, profession, difficulty, rng=rng): the result of the call and the
\* generator it leaves
seeded_new_game(profession, difficulty, rng) ==
  LET post == post_of(rng, 2)
      r    == new_game(profession, difficulty, weather_of(rng), terrain_of(rng), post.offers)
  IN  [result |-> r,
       rng |-> IF r.error = "none" THEN advance(rng, 2 + post.draws) ELSE rng]

\* perform_action of a game that draws from rng: the result of the call and
\* the generator it leaves
seeded_perform_action(g, rng, action, arg) ==
  IF g.is_over \/ action \notin ActionNames
  THEN [result |-> perform_action(g, action, arg, g.state.weather, g.state.terrain,
                                  25, NoEvent, <<>>),
        rng |-> rng]
  ELSE
    LET w == weather_of(rng)
        t == terrain_of(rng)
        handled == perform_action(g, action, arg, w, t, 25, NoEvent, <<>>)
    IN  IF handled.error # "none"
        THEN [result |-> handled, rng |-> advance(rng, 2)]
        ELSE
          LET n    == IF action = "hunt" THEN 3 ELSE 2
              gain == randint_of(rng, 3, 25, 55)
              ev   == event_of(rng, n)
              m    == n + ev.draws
              day  == perform_action(g, action, arg, w, t, gain, ev.event, <<>>)
          IN  IF day.game.is_over
              THEN [result |-> day, rng |-> advance(rng, m)]
              ELSE LET post == post_of(rng, m)
                   IN  [result |-> perform_action(g, action, arg, w, t, gain,
                                                  ev.event, post.offers),
                        rng |-> advance(rng, m + post.draws)]

\* the calls of the model from the current state
CallsNow ==
  {[action |-> "travel", arg |-> arg] : arg \in PaceArgs}
  \cup {[action |-> "hunt", arg |-> arg] : arg \in HuntArgs}
  \cup {[action |-> "trade", arg |-> arg] : arg \in TradeArgs}
  \cup {[action |-> "rest", arg |-> <<>>], [action |-> "swim", arg |-> <<>>]}

\* the values a generator has given before a call
Positions == {0, 5}

C13_SnapshotAfterLastStep ==
  (Completed /\ ~is_over) =>
    /\ Reported.day = state.day
    /\ Reported.trade_available = state.trade_available
    /\ ret.snapshot[1].trade_offers
         = [i \in DOMAIN current_trade_offers |-> describe(current_trade_offers[i])]

\* C14: after every completed call that leaves the game not over, whichever
\* the action, the list of offers is empty or holds exactly the offers
\* generated at the end of that call, and the post is open exactly when it
\* holds offers: no offer of an earlier day is listed on a later day.
C14_OffersOfTheDayOnly ==
  [][(ret'.error = "none" /\ ~is_over') =>
       /\ current_trade_offers' = ret'.post
       /\ state'.trade_available = (ret'.post # <<>>)]_vars

\* a day of rest at an open post that was not visited: the call reports the
\* offer of that day, and the next day has another
C14_PostReplaced ==
  /\ Completed
  /\ ~is_over
  /\ ret.action = "rest"
  /\ ret.snapshot[1].trade_offers # <<>>
  /\ current_trade_offers # <<>>
  /\ ret.snapshot[1].trade_offers[1] # describe(current_trade_offers[1])

\* the health _rest reports as gained
rest_gained(g) == rest(g).game.state.health - g.state.health

\* C15: a rest sets health to min(100, health + rest_health) before the event
\* and the starvation of the day, so that on a day without either the rest
\* never lowers health, raises it whenever it was below 100, and reports no
\* gain only when health was at the cap of 100.
C15_RestHealsTowardCap ==
  [][(/\ ~is_over
      /\ ret'.action = "rest"
      /\ ret'.error = "none"
      /\ ret'.event = "none"
      /\ state'.food > 0)
     => /\ state'.health = Min(100, state.health + settings(state).rest_health)
        /\ state'.health >= state.health
        /\ state.health < 100 => state'.health > state.health
        /\ rest_gained(game) <= 0 => state.health = 100]_vars

\* the ammunition a call of hunt spends: ammo_spent, 5 when it is left out
AmmoSpent(arg) == IF arg = <<>> THEN 5 ELSE arg[1]

\* C16: a hunt with 0 < a <= ammo, a being 5 when ammo_spent is left out,
\* completes; on a day without random event it leaves ammo exactly a lower,
\* food between food + 2a + 20 and food + 2a + 50 (a catch of 25 to 55 and 2a,
\* less the ration of 5) and distance, money and health as they were; a hunt
\* with a <= 0 raises ValueError.
C16_HuntSpendsAmmoForFood ==
  [][(~is_over /\ ret'.action = "hunt") =>
       LET a == AmmoSpent(ret'.arg)
       IN  /\ (0 < a /\ a <= state.ammo) =>
                /\ ret'.error = "none"
                /\ ret'.event = "none" =>
                     /\ state'.ammo = state.ammo - a
                     /\ state'.food >= state.food + 2 * a + 20
                     /\ state'.food <= state.food + 2 * a + 50
                     /\ state'.distance = state.distance
                     /\ state'.money = state.money
                     /\ state'.health = state.health
           /\ a <= 0 => ret'.error = "ValueError"]_vars

\* a hunt with the 5 units of the default brought back the largest catch
C16_HuntedWithDefaultAmmo ==
  /\ Completed
  /\ ret.action = "hunt"
  /\ ret.arg = <<>>
  /\ ret.event = "none"
  /\ Reported.ammo = 35
  /\ Reported.food = 90

\* the call accepts offer i of an open trading post on a day without random
\* event
Accept(i) ==
  /\ ~is_over
  /\ state.trade_available
  /\ ret'.action = "trade"
  /\ ret'.arg = <<i>>
  /\ ret'.event = "none"

\* the list of offers without its position i, as the call reports it
ReportedWithout(i) ==
  [k \in 1..(Len(current_trade_offers) - 1) |->
     describe(current_trade_offers[IF k <= i THEN k ELSE k + 1])]

\* the call raised ValueError and left the stocks and the money as they were
RefusedTrade ==
  /\ ret'.error = "ValueError"
  /\ state'.food = state.food
  /\ state'.ammo = state.ammo
  /\ state'.money = state.money

\* C17 as stated: accepting an offer with a negative price needs a stock of
\* the item of at least the quantity; then the stock goes down by exactly the
\* quantity and the money up by exactly |price|, the offer is removed and
\* trade_available is false for the rest of the day; otherwise the call
\* raises ValueError and neither stock nor money changes; an offer with a
\* positive price above the money raises ValueError and changes neither.
C17_SaleTakesQuantity ==
  [][\A i \in 0..(Len(current_trade_offers) - 1) :
       Accept(i) =>
         LET offer == current_trade_offers[i + 1]
             stock == get_resource(game, offer.item)
         IN  /\ (offer.price < 0 /\ stock >= offer.quantity) =>
                  /\ ret'.error = "none"
                  /\ get_resource([state |-> state'], offer.item) = stock - offer.quantity
                  /\ state'.money = state.money - offer.price
                  /\ ret'.snapshot[1].trade_offers = ReportedWithout(i)
                  /\ ~ret'.snapshot[1].state.trade_available
             /\ (offer.price < 0 /\ stock < offer.quantity) => RefusedTrade
             /\ (offer.price > 0 /\ offer.price > state.money) => RefusedTrade]_vars

\* C17 amended: as stated, but at the end of the call a sale of ammo leaves
\* ammo exactly the quantity lower, while a sale of food leaves food the
\* quantity and the ration of the trading day (3) lower, at least 0: the
\* handler takes exactly the quantity and the day then takes its food.
C17_SaleTakesQuantityAndRation ==
  [][\A i \in 0..(Len(current_trade_offers) - 1) :
       Accept(i) =>
         LET offer == current_trade_offers[i + 1]
             stock == get_resource(game, offer.item)
             sold  == trade(game, <<i>>).game
         IN  /\ (offer.price < 0 /\ stock >= offer.quantity) =>
                  /\ ret'.error = "none"
                  /\ get_resource(sold, offer.item) = stock - offer.quantity
                  /\ offer.item = "ammo" =>
                       /\ state'.ammo = state.ammo - offer.quantity
                       /\ state'.food = Max(0, state.food - day_food("trade", 0))
                  /\ offer.item = "food" =>
                       /\ state'.food = Max(0, state.food - offer.quantity - day_food("trade", 0))
                       /\ state'.ammo = state.ammo
                  /\ state'.money = state.money - offer.price
                  /\ ret'.snapshot[1].trade_offers = ReportedWithout(i)
                  /\ ~sold.state.trade_available
                  /\ ~ret'.snapshot[1].state.trade_available
             /\ (offer.price < 0 /\ stock < offer.quantity) => RefusedTrade
             /\ (offer.price > 0 /\ offer.price > state.money) => RefusedTrade]_vars

\* 25 units of food were sold for 10 from a stock of 30: 2 are left
C17_SoldFood ==
  /\ Completed
  /\ ret.action = "trade"
  /\ ret.arg = <<0>>
  /\ ret.event = "none"
  /\ Reported.food = 2
  /\ Reported.money = 510
  /\ Len(ret.snapshot[1].trade_offers) = 1
  /\ ret.snapshot[1].trade_offers[1].verb = "Buy"

\* a call of trade that finds no trading post or declines, on a day without
\* random event
IdleTrade ==
  /\ ~is_over
  /\ ret'.action = "trade"
  /\ \/ ~state.trade_available
     \/ current_trade_offers = <<>>
     \/ ret'.arg = <<>>
  /\ ret'.event = "none"

\* what an idle trade does apart from the health: it completes, keeps money,
\* ammo and distance, takes min(food, 3) food, counts the day as every
\* completed call does, and a decline leaves the day without offers and the
\* post closed
IdleTradeDay ==
  /\ ret'.error = "none"
  /\ state'.money = state.money
  /\ state'.ammo = state.ammo
  /\ state'.distance = state.distance
  /\ state'.food = state.food - Min(state.food, 3)
  /\ state'.day = IF is_over' THEN state.day ELSE state.day + 1
  /\ ret'.arg = <<>> =>
       /\ ret'.snapshot[1].trade_offers = <<>>
       /\ ~ret'.snapshot[1].state.trade_available

\* C18 as stated: a trade without trading post, or a decline, on a day without
\* random event changes neither money nor ammo nor distance nor health, but
\* completes one day: it takes min(food, 3) food, the day advances, and a
\* decline clears the offers and the availability of the day.
C18_IdleTradeKeepsHealth ==
  [][IdleTrade => (IdleTradeDay /\ state'.health = state.health)]_vars

\* C18 amended: as stated, but the health is kept only when the day ends with
\* food; a day that ends without food takes the starvation penalty of the
\* difficulty from the health, at least 0.
C18_IdleTradeStarves ==
  [][IdleTrade =>
       /\ IdleTradeDay
       /\ state'.health = IF state'.food > 0
                          THEN state.health
                          ELSE Max(0, state.health - settings(state).starvation_penalty)]_vars

\* a party without food declined the offers of a post and lost health
C18_DeclinedWithoutFood ==
  /\ Completed
  /\ ret.action = "trade"
  /\ ret.arg = <<>>
  /\ ret.event = "none"
  /\ ~is_over
  /\ Reported.food = 0
  /\ Reported.health = 100 - settings(state).starvation_penalty
  /\ Reported.money = 500

\* the starvation penalty of the difficulty, as the specification lists it
PenaltyOf(difficulty) ==
  CASE difficulty = "easy" -> 8
    [] difficulty = "normal" -> 10
    [] difficulty = "hard" -> 12

\* the health a day can have before its end: the health after the handler,
\* less the loss of an accident (8 to 15) or of an illness (12 to 20)
HealthBeforeEnd(action, event) ==
  LET rested == IF action = "rest"
                THEN Min(100, state.health + settings(state).rest_health)
                ELSE state.health
  IN  CASE event = "accident" -> {Max(0, rested - n) : n \in 8..15}
        [] event = "illness"  -> {Max(0, rested - n) : n \in 12..20}
        [] OTHER              -> {rested}

\* C19: the starvation penalty comes after the food and the random event of
\* the day and before the death check: a completed call whose day ends with
\* food 0 takes the penalty of the difficulty (8, 10, 12) from the health, at
\* least 0, and logs one message; a day that ends with food above 0 takes no
\* penalty and logs nothing; a penalty that brings the health to 0 ends the
\* game in the same call as lost.
C19_StarvationAtEndOfDay ==
  [][(~is_over /\ ret'.error = "none") =>
       /\ \E h \in HealthBeforeEnd(ret'.action, ret'.event) :
            state'.health = IF state'.food = 0
                            THEN Max(0, h - PenaltyOf(state.difficulty))
                            ELSE h
       /\ state'.event_log = IF state'.food = 0 THEN <<STARVING>> ELSE <<>>
       /\ state'.health = 0 =>
            (is_over' /\ ~state'.alive /\ ~state'.won /\ state'.status = PERISHED)]_vars

\* a party in poor health ended a day without event and without food and
\* died of the penalty
C19_StarvedToDeath ==
  /\ Completed
  /\ ret.event = "none"
  /\ Reported.food = 0
  /\ Reported.health = 0
  /\ Reported.event_log = <<STARVING>>
  /\ is_over
  /\ Reported.status = PERISHED

\* the pace next above a pace that has one
FasterPace(pace) == IF pace = "slow" THEN "steady" ELSE "grueling"

\* C20: under the same weather and terrain and from the same food, at least 7,
\* on a day without random event, a completed travel at the slower pace
\* covers no more miles and takes strictly less food than one at the faster
\* pace, for slow against steady and for steady against grueling.
C20_SlowerPaceSavesFood ==
  [][(/\ TravelDay
      /\ ret'.arg \in {<<"slow">>, <<"steady">>}
      /\ state.food >= 7)
     => LET faster == perform_action(game, "travel", <<FasterPace(ret'.arg[1])>>,
                                     state'.weather, state'.terrain, 25, NoEvent,
                                     ret'.post).game.state
        IN  /\ state'.distance - state.distance <= faster.distance - state.distance
            /\ state.food - state'.food < state.food - faster.food]_vars

\* the calls that have completed so far: every completed call but the one that
\* ends the game moves the day on by one, from day 1
CompletedActions == IF is_over THEN state.day ELSE state.day - 1

\* the miles a party can have covered after its completed calls: 25 for each,
\* and none for the last one unless it was a travel
FurthestMiles ==
  IF Completed /\ ret.action # "travel"
  THEN 25 * (CompletedActions - 1)
  ELSE 25 * CompletedActions

\* C21: a travel adds at most 25 miles and nothing else adds any, so between
\* calls the distance is at most 25 miles for each completed call, the
\* completed calls are at most max_days, at most 60, which makes at most 1500
\* miles, short of the 2000 of the target: the game is never won, on any
\* difficulty.
C21_TargetOutOfReach ==
  /\ state.distance <= FurthestMiles
  /\ CompletedActions <= max_days(state)
  /\ 25 * max_days(state) <= 1500
  /\ 1500 < TARGET_MILES
  /\ ~state.won
  /\ state.status # REACHED_OREGON

\* the furthest party of all travels 25 more miles on the last day of an easy
\* game: 1500 miles, and time runs out
C21_FurthestOnLastDay ==
  /\ Completed
  /\ ret.action = "travel"
  /\ is_over
  /\ state.day = 60
  /\ state.distance = 1500
  /\ state.status = TIME_RAN_OUT
  /\ ~state.won

\* rest completes under every roll of its day
RestCompletes ==
  \A wt \in WeatherTerrainRolls, after \in AfterRolls :
    perform_action(game, "rest", <<>>, wt.weather, wt.terrain, 25,
                   after.event, after.post).error = "none"

\* a call that completes ends the game or moves the day on by one
DayMovesOn ==
  ret'.error = "none" => is_over' \/ state'.day = state.day + 1

\* C22: the day never passes max_days and the completed calls are never more
\* than max_days; in a game that is not over rest completes whatever the
\* rolls, and a call that completes ends the game or moves the day on by
\* one; so a game whose caller keeps making calls that complete comes to its
\* end.
C22_EveryGameEnds ==
  /\ [](state.day <= max_days(state))
  /\ [](CompletedActions <= max_days(state))
  /\ [](~is_over => RestCompletes)
  /\ [][DayMovesOn]_vars
  /\ <>is_over

\* a party that travelled on an earlier day rests through the last day, and
\* time runs out
C22_RestedThroughLastDay ==
  /\ Completed
  /\ ret.action = "rest"
  /\ is_over
  /\ state.status = TIME_RAN_OUT
  /\ state.day = max_days(state)
  /\ state.distance > 700

\* the actions available_actions lists
Listed == {available_actions(game)[i] : i \in DOMAIN available_actions(game)}

\* C23: in a game that is not over, between two calls, the trading post is
\* open exactly when the list of offers is not empty; the list then holds one
\* to three offers, each of food or ammunition, of a positive quantity and at
\* a price other than zero; so available_actions lists trade, after travel,
\* hunt and rest, exactly when get_trade_offers is not empty.
C23_PostOpenIffOffers ==
  ~is_over =>
    /\ state.trade_available <=> current_trade_offers # <<>>
    /\ state.trade_available => Len(current_trade_offers) \in 1..3
    /\ \A i \in DOMAIN current_trade_offers :
         /\ current_trade_offers[i].item \in TRADE_ITEMS
         /\ current_trade_offers[i].quantity > 0
         /\ current_trade_offers[i].price # 0
    /\ {"travel", "hunt", "rest"} \subseteq Listed
    /\ "trade" \in Listed <=> get_trade_offers(game) # <<>>
    /\ SubSeq(available_actions(game), 1, 3) = <<"travel", "hunt", "rest">>

\* a day that began with an open post ends with no post for the next day:
\* the post is closed and the list empty
C23_PostClosedAndCleared ==
  /\ Completed
  /\ ~is_over
  /\ ret.action \in {"travel", "hunt", "rest"}
  /\ ret.snapshot[1].state.trade_available
  /\ ~state.trade_available
  /\ get_trade_offers(game) = <<>>
  /\ "trade" \notin Listed

====
